---- MODULE Spec2Model ----
(***************************************************************************)
(* A model of stdext::astar::algo (src/astar_algo.hpp, revision of         *)
(* 25-sep-2023, lines 1-189), the incremental A* engine, instantiated the  *)
(* way src/test/test_astar_algo.cpp instantiates it: nodes are kept in a   *)
(* caller-owned node_list, the enumerator hands out references into that   *)
(* list, sets and the solution map are keyed by the node id.               *)
(***************************************************************************)
EXTENDS Integers, Sequences, FiniteSets, TLC

\* ---------------------------------------------------------------- bounds
NumNodes == 4
MaxEdges == 4
MaxCost == 1
MaxH == 1
MaxStartG == 1

Nodes == 0 .. (NumNodes - 1)

\* ------------------------------------------------------------- variables
VARIABLES
    neighbors,           \* xy_node::neighbors of every node of node_list
    dist,                \* distance_to(a, b), the caller's edge cost
    heur,                \* what the caller's set_heuristic_score stores for a
                         \* node (an estimate towards the target, by node id)
    node_list,           \* the caller's node storage: general / heuristic score
    pq_kind,             \* the _PriorityQueue the engine is instantiated with
    beam_kind,           \* the _BeamSearch the engine is instantiated with
    start_node,          \* the start node handed to the constructor
    target_node_,
    priority_open_set_,  \* the frontier; its first entry is top()
    open_set_,
    closed_set_,
    solution_,
    node_,
    has_solution_,
    can_continue,        \* what the last call of operator()() returned:
                         \* "true", "false", or "none" before the first call
    scored               \* history: ids whose general score the engine has set

vars == <<neighbors, dist, heur, node_list, pq_kind, beam_kind, start_node,
          target_node_, priority_open_set_, open_set_, closed_set_, solution_,
          node_, has_solution_, can_continue, scored>>

inputs == <<neighbors, dist, heur, pq_kind, beam_kind, start_node, target_node_>>

\* ------------------------------------------------------------ scored node
\* base_node: the score pair of a node value, next to its identity.
base_node(id, g, h) == [id |-> id, g |-> g, h |-> h]

total_score(n) == n.g + n.h

\* (operator> with the comparison turned around)
operator_gt_flipped(a, b) == total_score(a) < total_score(b)

\* base_node::operator> (the ordering a std::greater frontier uses).
operator_gt(a, b) == total_score(a) > total_score(b)

\* base_node::operator< of the 24-apr-2022 revision (the ordering the
\* std::priority_queue<xy_node> of the test, a std::less frontier, uses).
operator_lt(a, b) == total_score(a) < total_score(b)

\* (a verifier with the comparison turned around)
solution_verifier_inverted(n) == n.id # target_node_

\* solution_verifier::operator(): the node is the target.
solution_verifier(n) == n.id = target_node_

\* ---------------------------------------------------------------- frontier
PqKinds == {"greater", "less", "unordered"}

\* The Compare of the priority structure: comp(a, b) means a is surfaced
\* after b.  "unordered" is a structure that promises no order at all.
Compare(a, b) ==
    CASE pq_kind = "greater" -> operator_gt(a, b)
      [] pq_kind = "less" -> operator_lt(a, b)
      [] OTHER -> FALSE

InsertAt(q, p, e) == SubSeq(q, 1, p - 1) \o <<e>> \o SubSeq(q, p, Len(q))

\* priority_queue::push: the entry goes to any place the Compare allows;
\* entries that compare equivalent are surfaced in an unspecified order.
Push(q, e) ==
    { InsertAt(q, p, e) : p \in
        { p \in 1 .. (Len(q) + 1) :
            /\ \A i \in 1 .. (p - 1) : ~Compare(q[i], e)
            /\ \A i \in p .. Len(q) : ~Compare(e, q[i]) } }

\* priority_queue::top.
Top(q) == Head(q)

\* (a pop that leaves the entry where it is)
Pop_keeps(q) == q

\* priority_queue::pop.
Pop(q) == Tail(q)

\* ------------------------------------------------------------ beam search
BeamKinds == {"no_beam_search", "filter"}

\* What the beam search functor may answer for a candidate (TRUE = reject).
\* no_beam_search always answers false; any other filter answers either way;
\* "reject_all" is the filter among them that answers true every time.
BeamAnswers ==
    CASE beam_kind = "no_beam_search" -> {FALSE}
      [] beam_kind = "reject_all" -> {TRUE}
      [] OTHER -> BOOLEAN

\* ----------------------------------------------------------------- inputs
Pairs == { p \in Nodes \X Nodes : p[1] # p[2] }

RECURSIVE SortedSeq(_)
SortedSeq(S) ==
    IF S = {} THEN <<>>
    ELSE LET m == CHOOSE x \in S : \A y \in S : x <= y
         IN <<m>> \o SortedSeq(S \ {m})

RECURSIVE Reach(_, _)
Reach(E, R) ==
    LET R2 == R \cup { p[2] : p \in { e \in E : e[1] \in R } }
    IN IF R2 = R THEN R ELSE Reach(E, R2)

RECURSIVE EdgeSetsOf(_, _)
EdgeSetsOf(k, P) ==
    IF k = 0 \/ P = {} THEN {{}}
    ELSE LET e == CHOOSE x \in P : TRUE
             rest == EdgeSetsOf(k, P \ {e})
             with == { S \cup {e} : S \in EdgeSetsOf(k - 1, P \ {e}) }
         IN rest \cup with

\* The graphs a run is given: at most MaxEdges edges, all of them leaving a
\* node that can be reached from node 0.
EdgeSets == { E \in EdgeSetsOf(MaxEdges, Pairs) :
                \A e \in E : e[1] \in Reach(E, {0}) }

\* neighbors of every node, enumerated in ascending id order.
NeighborsOf(E) == [n \in Nodes |-> SortedSeq({ p[2] : p \in { e \in E : e[1] = n } })]

\* distance_to over the edges of E with the costs c; 0 where there is no edge
\* (the engine asks for the cost of enumerated neighbours only).
DistOf(E, c) ==
    [a \in Nodes |-> [b \in Nodes |-> IF <<a, b>> \in E THEN c[<<a, b>>] ELSE 0]]

\* ------------------------------------------------------------ construction
\* (a constructor without open_set_.insert(start_node))
InitWith_no_open_insert(pqs, beams, targets, g0s) ==
    /\ \E E \in EdgeSets : \E c \in [E -> 0 .. MaxCost] :
          /\ neighbors = NeighborsOf(E)
          /\ dist = DistOf(E, c)
    /\ heur \in [Nodes -> 0 .. MaxH]
    /\ pq_kind \in pqs
    /\ beam_kind \in beams
    /\ target_node_ \in targets
    /\ \E g0 \in g0s :
          /\ start_node = base_node(0, g0, heur[0])
          /\ node_list = [n \in Nodes |->
                            IF n = 0 THEN [g |-> g0, h |-> 0] ELSE [g |-> 0, h |-> 0]]
    /\ priority_open_set_ = <<start_node>>
    /\ open_set_ = {}
    /\ closed_set_ = {}
    /\ solution_ = << >>
    /\ node_ = base_node(0, 0, 0)
    /\ has_solution_ = FALSE
    /\ can_continue = "none"
    /\ scored = {}

\* algo::algo: the start node gets its heuristic score and is put into the
\* open set and the frontier; its general score is left as it was passed.
\* The arguments say what the caller may instantiate and pass: the frontier
\* kinds, the beam filters, the targets and the general scores of the start.
InitWith(pqs, beams, targets, g0s) ==
    /\ \E E \in EdgeSets : \E c \in [E -> 0 .. MaxCost] :
          /\ neighbors = NeighborsOf(E)
          /\ dist = DistOf(E, c)
    /\ heur \in [Nodes -> 0 .. MaxH]
    /\ pq_kind \in pqs
    /\ beam_kind \in beams
    /\ target_node_ \in targets
    /\ \E g0 \in g0s :
          /\ start_node = base_node(0, g0, heur[0])
          /\ node_list = [n \in Nodes |->
                            IF n = 0 THEN [g |-> g0, h |-> 0] ELSE [g |-> 0, h |-> 0]]
    /\ priority_open_set_ = <<start_node>>
    /\ open_set_ = {start_node.id}
    /\ closed_set_ = {}
    /\ solution_ = << >>
    /\ node_ = base_node(0, 0, 0)
    /\ has_solution_ = FALSE
    /\ can_continue = "none"
    /\ scored = {}

\* The runs of the engine: the target is the start itself or the last node.
Init == InitWith(PqKinds, BeamKinds, {0, NumNodes - 1}, 0 .. MaxStartG)

\* ------------------------------------------------------------------- step
\* The part of the state evaluate_neighbors works on while it walks the
\* neighbours of node_.
Work(nl, sol, op, pq, sc) ==
    [node_list |-> nl, solution |-> sol, open |-> op, pq |-> pq, scored |-> sc]

\* (key and value of the map entry exchanged)
MapPut_swapped(sol, k, v) ==
    [x \in (DOMAIN sol) \cup {v.id} |->
        IF x = v.id THEN base_node(k, v.g, v.h) ELSE sol[x]]

\* solution_[neighbor] = node_
MapPut(sol, k, v) ==
    [x \in (DOMAIN sol) \cup {k} |-> IF x = k THEN v ELSE sol[x]]

\* (the loop body without the look into the closed set)
Relax_ignores_closed(w, cur, closed, nb, reject) ==
    LET tentative_general_score == cur.g + dist[cur.id][nb]
        need_test == nb \notin w.open
    IN IF need_test \/ tentative_general_score < w.node_list[nb].g
       THEN
         LET nl == [w.node_list EXCEPT
                      ![nb] = [g |-> tentative_general_score, h |-> heur[nb]]]
             neighbor == base_node(nb, nl[nb].g, nl[nb].h)
             w1 == [w EXCEPT !.node_list = nl, !.scored = @ \cup {nb}]
         IN IF reject THEN {w1}
            ELSE { [w1 EXCEPT !.solution = MapPut(@, nb, cur),
                              !.open = @ \cup {nb},
                              !.pq = q] : q \in Push(w.pq, neighbor) }
       ELSE {w}

\* (the loop body with the score comparison turned around)
Relax_takes_higher(w, cur, closed, nb, reject) ==
    IF nb \in closed THEN {w}
    ELSE
      LET tentative_general_score == cur.g + dist[cur.id][nb]
          need_test == nb \notin w.open
      IN IF need_test \/ tentative_general_score > w.node_list[nb].g
         THEN
           LET nl == [w.node_list EXCEPT
                        ![nb] = [g |-> tentative_general_score, h |-> heur[nb]]]
               neighbor == base_node(nb, nl[nb].g, nl[nb].h)
               w1 == [w EXCEPT !.node_list = nl, !.scored = @ \cup {nb}]
           IN IF reject THEN {w1}
              ELSE { [w1 EXCEPT !.solution = MapPut(@, nb, cur),
                                !.open = @ \cup {nb},
                                !.pq = q] : q \in Push(w.pq, neighbor) }
         ELSE {w}

\* (a relaxation that pushes a frontier entry for a new neighbour only, the
\* way the 24-apr-2022 revision pushes under `if (need_test)`)
Relax_pushes_new_only(w, cur, closed, nb, reject) ==
    IF nb \in closed THEN {w}
    ELSE
      LET tentative_general_score == cur.g + dist[cur.id][nb]
          need_test == nb \notin w.open
      IN IF need_test \/ tentative_general_score < w.node_list[nb].g
         THEN
           LET nl == [w.node_list EXCEPT ![nb] = [g |-> tentative_general_score,
                                                  h |-> heur[nb]]]
               neighbor == base_node(nb, nl[nb].g, nl[nb].h)
               w1 == [w EXCEPT !.node_list = nl, !.scored = @ \cup {nb}]
           IN IF reject THEN {w1}
              ELSE { [w1 EXCEPT !.solution = MapPut(@, nb, cur),
                                !.open = @ \cup {nb},
                                !.pq = q] :
                       q \in IF need_test THEN Push(w.pq, neighbor) ELSE {w.pq} }
         ELSE {w}

\* (a relaxation that admits the candidate when the beam filter answers
\* true: the negation at hpp:168 left out)
Relax_admits_rejected(w, cur, closed, nb, reject) ==
    IF nb \in closed THEN {w}
    ELSE
      LET tentative_general_score == cur.g + dist[cur.id][nb]
          need_test == nb \notin w.open
      IN IF need_test \/ tentative_general_score < w.node_list[nb].g
         THEN
           LET nl == [w.node_list EXCEPT ![nb] = [g |-> tentative_general_score,
                                                  h |-> heur[nb]]]
               neighbor == base_node(nb, nl[nb].g, nl[nb].h)
               w1 == [w EXCEPT !.node_list = nl, !.scored = @ \cup {nb}]
           IN IF ~reject THEN {w1}
              ELSE { [w1 EXCEPT !.solution = MapPut(@, nb, cur),
                                !.open = @ \cup {nb},
                                !.pq = q] : q \in Push(w.pq, neighbor) }
         ELSE {w}

\* (a relaxation that records the predecessor whatever the beam filter
\* answers, the way the 24-apr-2022 revision inserts into its solution map
\* outside the beam branch)
Relax_records_rejected(w, cur, closed, nb, reject) ==
    IF nb \in closed THEN {w}
    ELSE
      LET tentative_general_score == cur.g + dist[cur.id][nb]
          need_test == nb \notin w.open
      IN IF need_test \/ tentative_general_score < w.node_list[nb].g
         THEN
           LET nl == [w.node_list EXCEPT ![nb] = [g |-> tentative_general_score,
                                                  h |-> heur[nb]]]
               neighbor == base_node(nb, nl[nb].g, nl[nb].h)
               w1 == [w EXCEPT !.node_list = nl, !.scored = @ \cup {nb},
                               !.solution = MapPut(@, nb, cur)]
           IN IF reject THEN {w1}
              ELSE { [w1 EXCEPT !.open = @ \cup {nb},
                                !.pq = q] : q \in Push(w.pq, neighbor) }
         ELSE {w}

\* The body of the for loop of evaluate_neighbors for one neighbour nb, with
\* the answer `reject` of the beam search; closed is closed_set_ after node_
\* went into it.  The set of states the body can leave.
Relax(w, cur, closed, nb, reject) ==
    IF nb \in closed THEN {w}
    ELSE
      LET tentative_general_score == cur.g + dist[cur.id][nb]
          need_test == nb \notin w.open
      IN IF need_test \/ tentative_general_score < w.node_list[nb].g
         THEN
           LET nl == [w.node_list EXCEPT
                        ![nb] = [g |-> tentative_general_score, h |-> heur[nb]]]
               neighbor == base_node(nb, nl[nb].g, nl[nb].h)
               w1 == [w EXCEPT !.node_list = nl, !.scored = @ \cup {nb}]
           IN IF reject THEN {w1}
              ELSE { [w1 EXCEPT !.solution = MapPut(@, nb, cur),
                                !.open = @ \cup {nb},
                                !.pq = q] : q \in Push(w.pq, neighbor) }
         ELSE {w}

\* (the loop of the 24-apr-2022 revision: it ends at the first neighbour it
\* finds in the closed set)
RECURSIVE EvalFrom_stops_at_closed(_, _, _, _)
EvalFrom_stops_at_closed(w, cur, closed, i) ==
    IF i > Len(neighbors[cur.id]) \/ neighbors[cur.id][i] \in closed THEN {w}
    ELSE UNION { EvalFrom_stops_at_closed(w2, cur, closed, i + 1) :
                   w2 \in UNION { Relax(w, cur, closed, neighbors[cur.id][i], r) :
                                    r \in BeamAnswers } }

\* The for loop of evaluate_neighbors from the i-th neighbour on.
RECURSIVE EvalFrom(_, _, _, _)
EvalFrom(w, cur, closed, i) ==
    IF i > Len(neighbors[cur.id]) THEN {w}
    ELSE UNION { EvalFrom(w2, cur, closed, i + 1) :
                   w2 \in UNION { Relax(w, cur, closed, neighbors[cur.id][i], r) :
                                    r \in BeamAnswers } }

\* The states the for loop of evaluate_neighbors can be in when it reaches
\* the j-th neighbour, having started from w.
RECURSIVE EvalBefore(_, _, _, _)
EvalBefore(w, cur, closed, j) ==
    IF j <= 1 THEN {w}
    ELSE UNION { UNION { Relax(w1, cur, closed, neighbors[cur.id][j - 1], r) :
                           r \in BeamAnswers } :
                   w1 \in EvalBefore(w, cur, closed, j - 1) }

\* (evaluate_neighbors without open_set_.erase(node_))
evaluate_neighbors_no_erase(cur) ==
    LET closed == closed_set_ \cup {cur.id}
        w0 == Work(node_list, solution_, open_set_,
                   Pop(priority_open_set_), scored)
    IN /\ closed_set_' = closed
       /\ \E w \in EvalFrom(w0, cur, closed, 1) :
            /\ node_list' = w.node_list
            /\ solution_' = w.solution
            /\ open_set_' = w.open
            /\ priority_open_set_' = w.pq
            /\ scored' = w.scored

\* algo::evaluate_neighbors: pop, move node_ from open to closed, relax.
evaluate_neighbors(cur) ==
    LET closed == closed_set_ \cup {cur.id}
        w0 == Work(node_list, solution_, open_set_ \ {cur.id},
                   Pop(priority_open_set_), scored)
    IN /\ closed_set_' = closed
       /\ \E w \in EvalFrom(w0, cur, closed, 1) :
            /\ node_list' = w.node_list
            /\ solution_' = w.solution
            /\ open_set_' = w.open
            /\ priority_open_set_' = w.pq
            /\ scored' = w.scored

\* operator()() when the open set is empty: nothing is touched.
StepExhausted ==
    /\ open_set_ = {}
    /\ can_continue' = "false"
    /\ UNCHANGED <<inputs, node_list, priority_open_set_, open_set_, closed_set_,
                   solution_, node_, has_solution_, scored>>

\* (an accepting call that takes the accepted node off the frontier)
StepAccept_pops ==
    /\ open_set_ # {}
    /\ solution_verifier(Top(priority_open_set_))
    /\ node_' = Top(priority_open_set_)
    /\ has_solution_' = TRUE
    /\ can_continue' = "false"
    /\ priority_open_set_' = Pop(priority_open_set_)
    /\ open_set_' = open_set_ \ {Top(priority_open_set_).id}
    /\ UNCHANGED <<inputs, node_list, closed_set_, solution_, scored>>

\* operator()() when the verifier accepts top(): the node is only peeked.
StepAccept ==
    /\ open_set_ # {}
    /\ solution_verifier(Top(priority_open_set_))
    /\ node_' = Top(priority_open_set_)
    /\ has_solution_' = TRUE
    /\ can_continue' = "false"
    /\ UNCHANGED <<inputs, node_list, priority_open_set_, open_set_, closed_set_,
                   solution_, scored>>

\* operator()() when the verifier refuses top(): the node is expanded.
StepExpand ==
    /\ open_set_ # {}
    /\ ~solution_verifier(Top(priority_open_set_))
    /\ node_' = Top(priority_open_set_)
    /\ has_solution_' = FALSE
    /\ can_continue' = "true"
    /\ evaluate_neighbors(Top(priority_open_set_))
    /\ UNCHANGED inputs

\* (an operator()() that tests the frontier, not the open set, for being
\* empty)
Next_guards_frontier ==
    \/ /\ priority_open_set_ = << >>
       /\ can_continue' = "false"
       /\ UNCHANGED <<inputs, node_list, priority_open_set_, open_set_,
                      closed_set_, solution_, node_, has_solution_, scored>>
    \/ /\ priority_open_set_ # << >>
       /\ solution_verifier(Top(priority_open_set_))
       /\ node_' = Top(priority_open_set_)
       /\ has_solution_' = TRUE
       /\ can_continue' = "false"
       /\ UNCHANGED <<inputs, node_list, priority_open_set_, open_set_,
                      closed_set_, solution_, scored>>
    \/ /\ priority_open_set_ # << >>
       /\ ~solution_verifier(Top(priority_open_set_))
       /\ node_' = Top(priority_open_set_)
       /\ has_solution_' = FALSE
       /\ can_continue' = "true"
       /\ evaluate_neighbors(Top(priority_open_set_))
       /\ UNCHANGED inputs

\* algo::operator()(): one call.
Next == StepExhausted \/ StepAccept \/ StepExpand

Spec == Init /\ [][Next]_vars

\* ------------------------------------------------------- derived notions
Range(q) == { q[i] : i \in DOMAIN q }

\* The edges the neighbour enumerator produces.
Edges == { p \in Nodes \X Nodes : p[2] \in Range(neighbors[p[1]]) }

\* The nodes a path of enumerated edges leads to from the start node.
Reachable == Reach(Edges, {start_node.id})

DefaultFilter == beam_kind = "no_beam_search"
MinFirst == pq_kind = "greater"

\* How many frontier entries carry the identity n.
Copies(q, n) == Cardinality({ i \in DOMAIN q : q[i].id = n })

\* A bound no path cost reaches.
Infinity == NumNodes * MaxCost + 1

Min2(a, b) == IF a <= b THEN a ELSE b

RECURSIVE MinOf(_)
MinOf(S) ==
    IF S = {} THEN Infinity
    ELSE LET x == CHOOSE y \in S : TRUE IN Min2(x, MinOf(S \ {x}))

\* Bellman-Ford: the cheapest cost of a path of at most k edges from n to t.
RECURSIVE CostWithin(_, _, _)
CostWithin(k, n, t) ==
    IF n = t THEN 0
    ELSE IF k = 0 THEN Infinity
    ELSE MinOf({ dist[n][m] + CostWithin(k - 1, m, t) : m \in Range(neighbors[n]) })

\* The minimum path cost from n to t (Infinity or more when there is none).
MinCost(n, t) == CostWithin(NumNodes - 1, n, t)

\* demo::print: the walk back from n along the predecessor links, as the
\* sequence of ids met, first the id the walk starts at; it stops at an id
\* without an entry, or when the fuel k is used up.
RECURSIVE WalkBack(_, _)
WalkBack(n, k) ==
    IF n \notin DOMAIN solution_ \/ k = 0 THEN <<n>>
    ELSE <<n>> \o WalkBack(solution_[n].id, k - 1)

Walk == WalkBack(target_node_, NumNodes)

\* The edge cost summed along a walk (walk[i+1] is the predecessor of walk[i]).
RECURSIVE WalkCost(_, _)
WalkCost(walk, i) ==
    IF i >= Len(walk) THEN 0
    ELSE dist[walk[i + 1]][walk[i]] + WalkCost(walk, i + 1)

\* ------------------------------------------------------------------ claims

\* C10: with the default beam filter no node identity is at once in the
\* open set and in the closed set.
C10_OpenClosedDisjoint ==
    DefaultFilter => open_set_ \cap closed_set_ = {}

\* A node was expanded while others wait in the open set.
C10_Witness ==
    /\ DefaultFilter
    /\ Cardinality(closed_set_) >= 2
    /\ Cardinality(open_set_) >= 2

\* The runs considered for termination: every graph, every frontier kind and
\* both beam kinds, with the zero heuristic and a start score of zero (the
\* scores reach the control flow through the frontier order only, and the
\* "unordered" frontier surfaces its entries in every order).
FairInit ==
    /\ Init
    /\ heur = [n \in Nodes |-> 0]
    /\ start_node.g = 0

\* The caller calls operator()() again and again: a call that can change
\* the state is eventually made.
FairSpec == FairInit /\ [][Next]_vars /\ WF_vars(Next)

\* C2: on a finite graph, whatever the beam filter answers, repeated calls
\* of operator()() eventually return false.
C2_Termination == <>(can_continue = "false")

\* A run with a filter at work on a graph with a cycle back to the start
\* has ended.
C2_Witness ==
    /\ can_continue = "false"
    /\ beam_kind = "filter"
    /\ Cardinality(closed_set_) >= 3
    /\ \E n \in closed_set_ : <<n, start_node.id>> \in Edges

\* C3: with the default beam filter, whatever order the frontier surfaces
\* its entries in, a run on a graph in which the target can be reached from
\* the start does not end in failure: once operator()() has returned false,
\* has_solution() is true (a run that ended without a solution shows that
\* no path to the target exists).
C3_Completeness ==
    (DefaultFilter /\ can_continue = "false" /\ ~has_solution_)
        => target_node_ \notin Reachable

\* A run has ended with a solution on a target two or more edges away,
\* with at least one node left behind in the open set.
C3_Witness ==
    /\ DefaultFilter
    /\ can_continue = "false"
    /\ has_solution_
    /\ Len(Walk) >= 3
    /\ Cardinality(open_set_) >= 2

\* C4: on a graph in which no path leads from the start to the target,
\* has_solution() is never true and the solution map never has an entry
\* for the target, in particular when operator()() has returned false.
C4_UnreachableTarget ==
    (has_solution_ \/ target_node_ \in DOMAIN solution_)
        => target_node_ \in Reachable

\* A run on a graph without a path to the target has ended after every
\* one of three or more reachable nodes was expanded.
C4_Witness ==
    /\ can_continue = "false"
    /\ Cardinality(closed_set_) >= 3
    /\ target_node_ \notin Reachable
    /\ closed_set_ = Reachable
    /\ ~has_solution_

\* C6: whenever has_solution() is true, the walk back from the target along
\* the predecessor links of the solution map meets no id twice, ends at the
\* start node, which is the only id on it without an entry, and every link
\* followed is an edge the neighbour enumerator produces; when the start is
\* the target the walk is the start alone.
C6_Reconstruction ==
    has_solution_ =>
        /\ Len(Walk) <= NumNodes
        /\ \A i, j \in DOMAIN Walk : i # j => Walk[i] # Walk[j]
        /\ Walk[Len(Walk)] = start_node.id
        /\ \A i \in DOMAIN Walk :
              (Walk[i] \notin DOMAIN solution_) <=> (i = Len(Walk))
        /\ \A i \in 1 .. (Len(Walk) - 1) : <<Walk[i + 1], Walk[i]>> \in Edges
        /\ (target_node_ = start_node.id => Walk = <<start_node.id>>)

\* A solution was found whose walk back has three or more nodes, after the
\* predecessor of some node was overwritten (an older copy of it is still
\* in the frontier).
C6_Witness ==
    /\ has_solution_
    /\ Len(Walk) >= 3
    /\ \E n \in Nodes : Copies(priority_open_set_, n) >= 2

\* C7: once operator()() has returned false, a further call returns false
\* again and leaves has_solution, the frontier, the open set, the closed
\* set and the solution map as they are; after a success the accepted node
\* is still the top of the frontier and in the open set, and not in the
\* closed set.
C7_TerminalAbsorbing ==
    [][ can_continue = "false" =>
          /\ can_continue' = "false"
          /\ UNCHANGED <<has_solution_, priority_open_set_, open_set_,
                         closed_set_, solution_>>
          /\ has_solution_ =>
               /\ priority_open_set_' # << >>
               /\ Top(priority_open_set_') = node_
               /\ node_.id \in open_set_'
               /\ node_.id \notin closed_set_' ]_vars

\* A run ended with success while other entries wait in the frontier.
C7_Witness ==
    /\ can_continue = "false"
    /\ has_solution_
    /\ Len(priority_open_set_) >= 2
    /\ Top(priority_open_set_) = node_
    /\ closed_set_ # {}

\* C8: a node identity that is in the closed set stays there, and no later
\* call of operator()() pushes it onto the frontier, inserts it into the
\* open set, or changes its general score, its heuristic score or its
\* predecessor in the solution map.
C8_NoRevisitAfterClosure ==
    [][ \A n \in closed_set_ :
          /\ n \in closed_set_'
          /\ n \notin open_set_'
          /\ Copies(priority_open_set_', n) <= Copies(priority_open_set_, n)
          /\ node_list'[n] = node_list[n]
          /\ (n \in DOMAIN solution_') = (n \in DOMAIN solution_)
          /\ n \in DOMAIN solution_ => solution_'[n] = solution_[n] ]_vars

\* A node was expanded that has an edge to a node closed before it.
C8_Witness ==
    /\ can_continue = "true"
    /\ Cardinality(closed_set_) >= 2
    /\ \E n \in closed_set_ \ {node_.id} : <<node_.id, n>> \in Edges

\* C9 as claimed: whatever the beam filter answers, no call of operator()()
\* raises the general score of a node whose general score the engine has
\* set before.
C9_Claimed ==
    [][ \A n \in scored : node_list'[n].g <= node_list[n].g ]_vars

\* C9: no call of operator()() raises the general score of a node that is
\* in the open set or in the closed set (with the default filter: of any
\* node whose general score the engine has set before); where a call
\* changes such a score it lowers it.
C9_MonotonicCostRevision ==
    [][ \A n \in scored :
          (DefaultFilter \/ n \in open_set_ \cup closed_set_)
              => node_list'[n].g <= node_list[n].g ]_vars

\* The general score of a node in the open set was lowered: the node has an
\* older frontier entry with a higher general score than its current one.
C9_Witness ==
    \E i \in DOMAIN priority_open_set_ :
        LET e == priority_open_set_[i]
        IN e.id \in scored /\ node_list[e.id].g < e.g

\* The engine as the test instantiates it: std::priority_queue<xy_node>,
\* whose Compare is std::less, and the default beam filter.
TestInit ==
    /\ Init
    /\ pq_kind = "less"
    /\ DefaultFilter

TestSpec == TestInit /\ [][Next]_vars

Admissible == \A n \in Nodes : heur[n] <= MinCost(n, target_node_)

\* The heuristic obeys the triangle inequality on every edge.
Consistent == \A e \in Edges : heur[e[1]] <= dist[e[1]][e[2]] + heur[e[2]]

\* The edge cost of the path the solution map gives for the target.
PathCost == WalkCost(Walk, 1)

\* C1 as claimed: with a frontier that surfaces a minimum total score, the
\* default filter and an admissible heuristic, a found solution has the
\* minimum path cost from the start to the target.
C1_Claimed ==
    (has_solution_ /\ MinFirst /\ DefaultFilter /\ Admissible)
        => PathCost = MinCost(start_node.id, target_node_)

\* C1: with a frontier that surfaces a minimum total score, the default
\* filter and a heuristic that is admissible and consistent, a found
\* solution has the minimum path cost from the start to the target.
C1_Optimality ==
    (has_solution_ /\ MinFirst /\ DefaultFilter /\ Admissible /\ Consistent)
        => PathCost = MinCost(start_node.id, target_node_)

\* A solution of two or more edges was found under a consistent, admissible
\* heuristic that is not zero everywhere, after a cheaper way to some node
\* replaced a dearer one (the dearer copy is still in the frontier).
C1_Witness ==
    /\ has_solution_ /\ MinFirst /\ DefaultFilter
    /\ Len(Walk) >= 3
    /\ \E n \in Nodes : Copies(priority_open_set_, n) >= 2
    /\ \E n \in Nodes : heur[n] > 0
    /\ Admissible /\ Consistent
    /\ PathCost = MinCost(start_node.id, target_node_)

\* Plain A*: the frontier that surfaces the lowest total score and the
\* default beam filter.
PlainInit == InitWith({"greater"}, {"no_beam_search"}, {0, NumNodes - 1}, 0 .. MaxStartG)

PlainSpec == PlainInit /\ [][Next]_vars

\* C11: each node identity is expanded at most once: no call of
\* operator()() that returns true pops an entry whose identity is already in
\* the closed set (a stale duplicate is dropped without evaluating
\* neighbours).
C11_SingleExpansion ==
    [][ can_continue' = "true" => node_'.id \notin closed_set_ ]_vars

\* C12: when the beam filter rejects a candidate neighbour, the solution
\* map, the open set and the frontier are as they were before the filter
\* was asked about it; the default filter rejects nothing, so with it every
\* new or strictly improved neighbour outside the closed set is admitted:
\* it is in the open set, its predecessor is the expanded node and one more
\* frontier entry carries its new scores.  Stated for every neighbour the
\* next expansion will evaluate, in every state its loop can be in.
C12_BeamFilterContract ==
    (open_set_ # {} /\ ~solution_verifier(Top(priority_open_set_))) =>
      LET cur == Top(priority_open_set_)
          closed == closed_set_ \cup {cur.id}
          w0 == Work(node_list, solution_, open_set_ \ {cur.id},
                     Pop(priority_open_set_), scored)
      IN \A j \in DOMAIN neighbors[cur.id] :
           LET nb == neighbors[cur.id][j]
               tentative == cur.g + dist[cur.id][nb]
           IN \A w \in EvalBefore(w0, cur, closed, j) :
                /\ TRUE \in BeamAnswers =>
                     \A w2 \in Relax(w, cur, closed, nb, TRUE) :
                        /\ w2.solution = w.solution
                        /\ w2.open = w.open
                        /\ w2.pq = w.pq
                /\ DefaultFilter =>
                     /\ BeamAnswers = {FALSE}
                     /\ (/\ nb \notin closed
                         /\ nb \notin w.open \/ tentative < w.node_list[nb].g) =>
                          \A w2 \in Relax(w, cur, closed, nb, FALSE) :
                             /\ nb \in w2.open
                             /\ nb \in DOMAIN w2.solution
                             /\ w2.solution[nb] = cur
                             /\ Copies(w2.pq, nb) = Copies(w.pq, nb) + 1
                             /\ base_node(nb, tentative, heur[nb]) \in Range(w2.pq)

\* A filter has rejected a candidate: a node was given scores and is in
\* neither set; another candidate was admitted.
C12_Witness ==
    /\ beam_kind = "filter"
    /\ can_continue = "true"
    /\ scored \ (open_set_ \cup closed_set_) # {}
    /\ open_set_ # {}

\* The runs with a beam filter that rejects every candidate, the caller
\* calling operator()() again and again.
RejectInit == InitWith(PqKinds, {"reject_all"}, {0, NumNodes - 1}, 0 .. MaxStartG)

RejectSpec == RejectInit /\ [][Next]_vars /\ WF_vars(Next)

\* C13: with a beam filter that rejects every candidate the run ends; the
\* open set, the frontier, the closed set and the node taken hold no
\* identity but the start, the solution map gets no entry, and a solution
\* is reported only when the target is the start itself.
C13_RejectAll ==
    /\ [](/\ open_set_ \subseteq {start_node.id}
          /\ \A i \in DOMAIN priority_open_set_ :
                priority_open_set_[i].id = start_node.id
          /\ DOMAIN solution_ = {}
          /\ closed_set_ \subseteq {start_node.id}
          /\ can_continue # "none" => node_.id = start_node.id
          /\ has_solution_ => target_node_ = start_node.id)
    /\ <>(can_continue = "false")

\* The run has ended without a solution although the target is a
\* neighbour of the start and was given its scores.
C13_Witness ==
    /\ beam_kind = "reject_all"
    /\ can_continue = "false"
    /\ ~has_solution_
    /\ target_node_ \in Range(neighbors[start_node.id])
    /\ target_node_ \in scored

\* C14: after construction and before any call of operator()() the
\* frontier holds exactly one entry, the start node with its heuristic
\* score computed, the open set is exactly the start, the closed set and
\* the solution map are empty, no solution is reported and no node has been
\* given scores by a relaxation.
C14_ConstructionPostState ==
    can_continue = "none" =>
      /\ Len(priority_open_set_) = 1
      /\ priority_open_set_[1].id = start_node.id
      /\ priority_open_set_[1].h = heur[start_node.id]
      /\ open_set_ = {start_node.id}
      /\ closed_set_ = {}
      /\ DOMAIN solution_ = {}
      /\ ~has_solution_
      /\ scored = {}
      /\ \A n \in Nodes \ {start_node.id} : node_list[n] = [g |-> 0, h |-> 0]

\* An engine just constructed on a start that has neighbours and a
\* heuristic score other than zero.
C14_Witness ==
    /\ can_continue = "none"
    /\ Len(neighbors[start_node.id]) >= 2
    /\ heur[start_node.id] > 0
    /\ target_node_ # start_node.id

\* C15: whatever general score the start node carries when it is passed to
\* the constructor, the entry seeded into the frontier has general score
\* zero, so the scores given by the first expansion are the edge costs.
C15_StartCostReset ==
    /\ can_continue = "none" => Top(priority_open_set_).g = 0
    /\ \A n \in DOMAIN solution_ :
          solution_[n].id = start_node.id =>
            node_list[n].g <= dist[start_node.id][n]

\* The runs the scenarios are taken from: default filter, zero heuristic,
\* node 2 as the target, the caller calling operator()() again and again.
ScenarioInit ==
    /\ InitWith(PqKinds, {"no_beam_search"}, {2}, 0 .. MaxStartG)
    /\ heur = [n \in Nodes |-> 0]

ScenarioSpec == ScenarioInit /\ [][Next]_vars /\ WF_vars(Next)

\* The graph 0 -> 1 -> 2 with unit edge costs.
LinearChain ==
    /\ neighbors = [n \in Nodes |-> CASE n = 0 -> <<1>> [] n = 1 -> <<2>> [] OTHER -> << >>]
    /\ dist[0][1] = 1
    /\ dist[1][2] = 1

RECURSIVE Reverse(_)
Reverse(q) == IF q = << >> THEN << >> ELSE Reverse(Tail(q)) \o <<Head(q)>>

\* C16: on the graph 0 -> 1 -> 2 with unit edge costs, zero heuristic,
\* start 0, target 2 and the default filter the run ends, it ends with a
\* solution, never by exhaustion, the path read back from the solution map
\* is 0, 1, 2 and its cost is 2.
C16_LinearChainScenario ==
    /\ [](LinearChain =>
            /\ can_continue = "false" => has_solution_
            /\ has_solution_ =>
                  /\ Reverse(Walk) = <<0, 1, 2>>
                  /\ PathCost = 2)
    /\ LinearChain => <>(can_continue = "false" /\ has_solution_)

\* The run on the chain has ended after node 0 and node 1 were expanded.
C16_Witness ==
    /\ LinearChain
    /\ can_continue = "false"
    /\ has_solution_
    /\ closed_set_ = {0, 1}
    /\ node_.id = 2

\* C17: a call that expands a node evaluates every neighbour of that node
\* that is not in the closed set, wherever it stands in the enumeration
\* (a closed neighbour before it does not end the loop): after the call the
\* neighbour has been given scores, its general score is at most the
\* expanded node's plus the edge cost, and with the default filter it is in
\* the open set with a predecessor.
C17_NeighbourCoverage ==
    [][ can_continue' = "true" =>
          \A i \in DOMAIN neighbors[node_'.id] :
             LET nb == neighbors[node_'.id][i]
             IN nb \notin closed_set_' =>
                  /\ nb \in scored'
                  /\ node_list'[nb].g <= node_'.g + dist[node_'.id][nb]
                  /\ DefaultFilter =>
                        /\ nb \in open_set_'
                        /\ nb \in DOMAIN solution_' ]_vars

\* --------------------------------------- the revision of 24-apr-2022
\* The same header holds the earlier revision of the engine (lines 191-361),
\* the one src/test/test_astar_algo.cpp is written against: operator()()
\* relaxes in a while loop of its own, the solution is a std::set filled
\* with insert, and the beam functor returns nothing.

\* std::set::insert on the solution: an entry already there is kept.
MapInsert(sol, k, v) == IF k \in DOMAIN sol THEN sol ELSE MapPut(sol, k, v)

\* The body of the while loop for the neighbour nb (no_beam_search does
\* nothing); the results differ in where the push lands among equal scores.
Relax2022(w, cur, nb) ==
    LET tentative_general_score == cur.g + dist[cur.id][nb]
        need_test == nb \notin w.open
    IN IF need_test \/ tentative_general_score < w.node_list[nb].g
       THEN
         LET nl == [w.node_list EXCEPT ![nb] = [g |-> tentative_general_score,
                                                h |-> heur[nb]]]
             neighbor == base_node(nb, nl[nb].g, nl[nb].h)
             w1 == [w EXCEPT !.node_list = nl, !.scored = @ \cup {nb}]
             pushed == IF need_test
                       THEN { [w1 EXCEPT !.pq = q, !.open = @ \cup {nb}] :
                                q \in Push(w.pq, neighbor) }
                       ELSE {w1}
         IN { [x EXCEPT !.solution = MapInsert(@, nb, cur)] : x \in pushed }
       ELSE {w}

\* The while loop from the i-th neighbour on: it runs while the enumerator
\* has a neighbour and that neighbour is not in the closed set.
RECURSIVE EvalFrom2022(_, _, _, _)
EvalFrom2022(w, cur, closed, i) ==
    IF i > Len(neighbors[cur.id]) \/ neighbors[cur.id][i] \in closed THEN {w}
    ELSE UNION { EvalFrom2022(w2, cur, closed, i + 1) :
                   w2 \in Relax2022(w, cur, neighbors[cur.id][i]) }

\* operator()() of 2022 when the verifier refuses top().
StepExpand2022 ==
    /\ open_set_ # {}
    /\ ~solution_verifier(Top(priority_open_set_))
    /\ node_' = Top(priority_open_set_)
    /\ has_solution_' = FALSE
    /\ can_continue' = "true"
    /\ LET cur == Top(priority_open_set_)
           closed == closed_set_ \cup {cur.id}
           w0 == Work(node_list, solution_, open_set_ \ {cur.id},
                      Pop(priority_open_set_), scored)
       IN /\ closed_set_' = closed
          /\ \E w \in EvalFrom2022(w0, cur, closed, 1) :
               /\ node_list' = w.node_list
               /\ solution_' = w.solution
               /\ open_set_' = w.open
               /\ priority_open_set_' = w.pq
               /\ scored' = w.scored
    /\ UNCHANGED inputs

\* operator()() of 2022: with an empty open set and with an accepted top()
\* it does what the later revision does.
Next2022 == StepExhausted \/ StepAccept \/ StepExpand2022

\* The 2022 constructor puts the start into the frontier and the open set
\* with the scores it was passed (the test passes a heuristic score of 0);
\* the test instantiates std::priority_queue<xy_node> and no beam functor.
Init2022 ==
    /\ InitWith({"less"}, {"no_beam_search"}, {0, NumNodes - 1}, 0 .. MaxStartG)
    /\ heur[0] = 0

Spec2022 == Init2022 /\ [][Next2022]_vars

\* C18: with the default filter, a call that expands a node and finds a
\* neighbour already in the open set either improves it (the tentative
\* score is strictly lower: the neighbour's general score becomes the
\* tentative score, its heuristic score is recomputed, its predecessor
\* becomes the expanded node and one more frontier entry carries the new
\* scores) or leaves its scores, its predecessor and its frontier entries
\* as they were.
C18_OpenNeighbourRelaxation ==
    [][ (can_continue' = "true" /\ DefaultFilter) =>
          \A i \in DOMAIN neighbors[node_'.id] :
             LET nb == neighbors[node_'.id][i]
                 tentative == node_'.g + dist[node_'.id][nb]
             IN (nb \in open_set_ /\ nb # node_'.id /\ nb \notin closed_set_) =>
                  IF tentative < node_list[nb].g
                  THEN /\ node_list'[nb] = [g |-> tentative, h |-> heur[nb]]
                       /\ nb \in DOMAIN solution_'
                       /\ solution_'[nb] = node_'
                       /\ base_node(nb, tentative, heur[nb]) \in Range(priority_open_set_')
                       /\ Copies(priority_open_set_', nb) = Copies(priority_open_set_, nb) + 1
                  ELSE /\ node_list'[nb] = node_list[nb]
                       /\ nb \in DOMAIN solution_'
                       /\ solution_'[nb] = solution_[nb]
                       /\ Copies(priority_open_set_', nb) = Copies(priority_open_set_, nb) ]_vars

\* C19: with the default filter the nodes that have an entry in the
\* solution map are those of the open set and the closed set other than the
\* start; the start never has an entry, and every stored predecessor is a
\* node of the closed set.
C19_SolutionMapDomain ==
    DefaultFilter =>
      /\ DOMAIN solution_ = (open_set_ \cup closed_set_) \ {start_node.id}
      /\ start_node.id \notin DOMAIN solution_
      /\ \A n \in DOMAIN solution_ : solution_[n].id \in closed_set_

\* Several nodes have been admitted, by different predecessors, on a graph
\* with an edge back to the start.
C19_Witness ==
    /\ DefaultFilter
    /\ start_node.id \in UNION { Range(neighbors[n]) : n \in closed_set_ }
    /\ open_set_ # {}
    /\ \E a, b \in DOMAIN solution_ : solution_[a].id # solution_[b].id

\* C20 as claimed: a run that ends in failure leaves the frontier empty,
\* and a call reports exhaustion exactly when the frontier holds no entry.
C20_Claimed ==
    /\ []((can_continue = "false" /\ ~has_solution_) => priority_open_set_ = << >>)
    /\ [][ (can_continue' = "false" /\ ~has_solution_') <=>
             priority_open_set_ = << >> ]_vars

\* C20: a run that ends in failure leaves the open set empty, and every
\* entry still in the frontier is a duplicate of a node in the closed set;
\* a call reports exhaustion exactly when the open set holds no entry.
C20_FailureMeansEmptyOpenSet ==
    /\ []((can_continue = "false" /\ ~has_solution_) =>
            /\ open_set_ = {}
            /\ \A i \in DOMAIN priority_open_set_ :
                  priority_open_set_[i].id \in closed_set_)
    /\ [][ (can_continue' = "false" /\ ~has_solution_') <=> open_set_ = {} ]_vars

\* A run has ended in failure with an entry left in the frontier.
C20_Witness ==
    /\ can_continue = "false"
    /\ ~has_solution_
    /\ priority_open_set_ # << >>

\* C21: with the default filter every identity in the open set has an
\* entry in the frontier that carries the node's current general score, so
\* the frontier is not empty while the open set is not: operator()() never
\* calls top() or pop() on an empty frontier.
C21_FrontierCoversOpenSet ==
    DefaultFilter =>
      /\ \A n \in open_set_ :
            \E i \in DOMAIN priority_open_set_ :
               /\ priority_open_set_[i].id = n
               /\ priority_open_set_[i].g = node_list[n].g
      /\ open_set_ # {} => priority_open_set_ # << >>

\* An open node was improved: the frontier holds its old copy and the copy
\* with the current score.
C21_Witness ==
    /\ DefaultFilter
    /\ \E n \in open_set_ :
          /\ Copies(priority_open_set_, n) >= 2
          /\ \E i \in DOMAIN priority_open_set_ :
                /\ priority_open_set_[i].id = n
                /\ priority_open_set_[i].g > node_list[n].g

\* C22: with the default filter and a minimum-first frontier every
\* solution-map entry n -> p has general_score(n) = general_score(p) +
\* cost(p, n), the score stored in the predecessor value being p's current
\* score; so when a solution is reported the edge cost of the path read
\* back from the solution map is the target's general score minus the
\* start's.
C22_CostPredecessorConsistency ==
    (DefaultFilter /\ MinFirst) =>
      /\ \A n \in DOMAIN solution_ :
            /\ solution_[n].g = node_list[solution_[n].id].g
            /\ node_list[n].g = solution_[n].g + dist[solution_[n].id][n]
      /\ has_solution_ =>
            PathCost = node_list[target_node_].g - start_node.g

\* A solution over at least two edges was reported after an open node had
\* been improved, the start carrying a general score other than zero.
C22_Witness ==
    /\ DefaultFilter
    /\ MinFirst
    /\ has_solution_
    /\ Len(Walk) >= 3
    /\ PathCost >= 1
    /\ start_node.g > 0
    /\ \E n \in closed_set_ : Copies(priority_open_set_, n) >= 1

\* C23: with the default filter, a minimum-first frontier, a start score
\* of zero and a consistent heuristic that is zero at the target, the
\* general score a node carries when a call first puts it into the closed
\* set, and the one the target carries when the verifier accepts it, is
\* the minimum path cost from the start to that node.
C23_OptimalCostAtClosure ==
    [][ (/\ DefaultFilter
         /\ MinFirst
         /\ start_node.g = 0
         /\ heur[target_node_] = 0
         /\ Consistent) =>
          /\ (can_continue' = "true" /\ node_'.id \notin closed_set_) =>
                /\ node_'.g = MinCost(start_node.id, node_'.id)
                /\ node_list'[node_'.id].g = node_'.g
          /\ (has_solution_' /\ ~has_solution_) =>
                /\ node_'.id = target_node_
                /\ node_'.g = MinCost(start_node.id, target_node_) ]_vars

\* Under such a heuristic, not zero everywhere, a node whose first score
\* was improved has been closed and the target, two or more edges away,
\* accepted.
C23_Witness ==
    /\ DefaultFilter /\ MinFirst
    /\ start_node.g = 0
    /\ heur[target_node_] = 0
    /\ Consistent
    /\ \E n \in Nodes : heur[n] > 0
    /\ has_solution_
    /\ node_.g >= 1
    /\ Len(Walk) >= 3
    /\ \E n \in closed_set_ :
          \E i \in DOMAIN priority_open_set_ :
             /\ priority_open_set_[i].id = n
             /\ priority_open_set_[i].g > node_list[n].g

====
